---- MODULE Spec2Model ----
(***************************************************************************)
(* Model of the HiLink SCRAM login of jareddantis/hilink-api:              *)
(*   src/api/HwApi.ts       HwApi.login, initSession, getServerToken       *)
(*   src/unnamed/part_000   HwScramAuth (proofs) and HwRequest (requests)  *)
(*   src/api/HwEndpoints.ts the endpoint paths                             *)
(*                                                                         *)
(* A login attempt is the promise chain of HwApi.login.  Each action is    *)
(* one run of the JavaScript event loop for that attempt: the call of      *)
(* login() itself, or the arrival of one HTTP reply together with every    *)
(* callback that runs before the attempt suspends on the next request.     *)
(* The device (axios, the network, the XML it returns) is the environment: *)
(* its replies are drawn from small sets.  CryptoJS digests are symbolic   *)
(* terms; the conversions the code applies to strings (parseInt, hex       *)
(* parsing, substring, concatenation) are computed on character sequences. *)
(***************************************************************************)
EXTENDS Integers, Sequences, FiniteSets, TLC

VARIABLES
    env,            \* "browser" (window and document exist) or "node"
    device,         \* which replies the device draws from: "any" or "orderly"
    localStorage,   \* window.localStorage: the items "rsan" and "rsae"
    dom,            \* innerText of the page's h2 and code elements
    logins,         \* number of login() calls made so far
    par,            \* how many login() calls the caller keeps in flight at once
    lastWrite,      \* history: what the latest write of rsan/rsae rested on
    pc,             \* per attempt: the request the chain is suspended on
    clientNonce,    \* per attempt: login()'s local clientNonce
    serverNonce,    \* per attempt: login()'s local serverNonce
    veriToken,      \* per attempt: login()'s local veriToken
    scram,          \* per attempt: the HwScramAuth object's fields
    sent,           \* per attempt: the requests issued, in order
    rcvd,           \* per attempt: the replies received, in order
    chain,          \* per attempt: state of the promise .catch() is attached to
    caught,         \* per attempt: the errors handed to the .catch() handler
    retVal,         \* per attempt: the values login() has returned to its caller
    lsAtStart,      \* per attempt: history, localStorage when login() was called
    trace,          \* per attempt: history, the attempt's events in order
    auth,           \* a HwScramAuth object a caller drives directly
    calls,          \* history: the calls made on auth, with what they returned
    xor             \* the XOR loop of calcProof, word by word

\* What HwApi.login never touches.
unit == <<auth, calls, xor>>

vars == <<env, device, localStorage, dom, logins, par, lastWrite, pc, clientNonce,
          serverNonce, veriToken, scram, sent, rcvd, chain, caught, retVal,
          lsAtStart, trace, unit>>

(***************************************************************************)
(* Bounds of the model.                                                    *)
(***************************************************************************)
\* login() calls made in one run
MaxLogins == 2

\* calls made on a HwScramAuth object that is driven directly
MaxCalls == 4

\* The attempts (closures of login()) a run can hold.
Attempts == {1, 2}

(***************************************************************************)
(* JavaScript values.  Strings are sequences of one-character strings.     *)
(***************************************************************************)
Undef == [t |-> "undefined", v |-> <<>>]
Str(s) == [t |-> "string", v |-> s]
Num(n) == [t |-> "number", v |-> <<n>>]
NaN == [t |-> "number", v |-> <<>>]

IsNull(x) == x.t = "undefined"
IsNaN(x) == x.t = "number" /\ x.v = <<>>

\* String(x), as the + operator applies it to a non-string operand.
ToStr(x) ==
    IF x.t = "string" THEN x.v
    ELSE IF x.t = "undefined" THEN <<"u", "n", "d", "e", "f", "i", "n", "e", "d">>
    ELSE IF x.v = <<>> THEN <<"N", "a", "N">>
    ELSE <<x.v[1]>>

\* a + b on strings
Concat(a, b) == Str(ToStr(a) \o ToStr(b))

\* substring that starts one character early.
Substring_OneEarly(s, k) == Str(SubSeq(s.v, k, Len(s.v)))

\* s.substring(k)
Substring(s, k) == Str(SubSeq(s.v, k + 1, Len(s.v)))

HexDigits == <<"0", "1", "2", "3", "4", "5", "6", "7", "8", "9",
               "a", "b", "c", "d", "e", "f">>

\* Value of character c as a digit of the given radix, -1 when it is none.
DigitVal(c, radix) ==
    LET hits == {i \in 1..radix : HexDigits[i] = c}
    IN  IF hits = {} THEN -1 ELSE (CHOOSE i \in hits : TRUE) - 1

\* The longest prefix of s made of digits of the radix, as a number;
\* acc is the value so far and seen tells whether a digit was read.
RECURSIVE ParseDigits(_, _, _, _)
ParseDigits(s, radix, acc, seen) ==
    IF s = <<>> \/ DigitVal(Head(s), radix) < 0
    THEN IF seen THEN Num(acc) ELSE NaN
    ELSE ParseDigits(Tail(s), radix, acc * radix + DigitVal(Head(s), radix), TRUE)

\* parseInt(str, radix): optional sign, then the longest digit prefix; NaN
\* when there is no digit.  Trailing garbage is ignored.
parseInt(str, radix) ==
    LET s == ToStr(str)
        neg == s # <<>> /\ Head(s) = "-"
        body == IF s # <<>> /\ Head(s) \in {"-", "+"} THEN Tail(s) ELSE s
        n == ParseDigits(body, radix, 0, FALSE)
    IN  IF IsNaN(n) THEN NaN ELSE IF neg THEN Num(0 - n.v[1]) ELSE n

(***************************************************************************)
(* CryptoJS, as HwScramAuth uses it.  Digests are symbolic terms.          *)
(***************************************************************************)
KEYSIZE == 8

\* CryptoJS.enc.Hex.parse: one byte per two characters, parseInt(pair, 16);
\* a pair that is no hex number gives NaN, which the shift turns into 0.
HexParse(str) ==
    LET s == ToStr(str)
        n == (Len(s) + 1) \div 2
        pair(k) == Str(SubSeq(s, 2 * k - 1, IF 2 * k <= Len(s) THEN 2 * k ELSE Len(s)))
        byte(k) == LET x == parseInt(pair(k), 16)
                   IN  IF IsNaN(x) THEN 0 ELSE x.v[1] % 256
    IN  [k \in 1..n |-> byte(k)]

\* The number of PRF rounds PBKDF2 runs per block: its loop is
\* for (i = 1; i < iterations; i++), so anything below 1, and NaN, is 1.
Rounds(iters) ==
    IF iters.t = "number" /\ iters.v # <<>> /\ iters.v[1] >= 1 THEN iters.v[1] ELSE 1

PBKDF2(pwd, saltBytes, iters) ==
    [f |-> "PBKDF2-SHA256", a |-> pwd, b |-> saltBytes, n |-> <<Rounds(iters), KEYSIZE>>]

HmacSHA256(message, key) == [f |-> "HMAC-SHA256", a |-> message, b |-> key, n |-> <<>>]

SHA256(message) == [f |-> "SHA256", a |-> message, b |-> <<>>, n |-> <<>>]

\* WordArray.toString(): the hex string of a digest
HexString(digest) == [t |-> "hexstring", v |-> digest]

(***************************************************************************)
(* HwScramAuth                                                             *)
(***************************************************************************)
\* new HwScramAuth(pwd): only pwd is set
NewScram(pwd) ==
    [pwd |-> pwd, clientNonce |-> Undef, iters |-> Undef, salt |-> Undef,
     serverNonce |-> Undef, sigSecret |-> Undef]

\* The k-th value CryptoJS.lib.WordArray.random(32).toString() returns in a
\* run: fresh on every call.
generateNonce(k) == Str(<<"c", HexDigits[k + 1]>>)

\* setParams that builds the AuthMessage from the client nonce the object
\* held before the call.
setParams_StaleNonce(sc, cNonce, sNonce, salt, iters) ==
    [sc EXCEPT !.clientNonce = cNonce,
               !.iters = iters,
               !.salt = salt,
               !.serverNonce = sNonce,
               !.sigSecret = Concat(Concat(Concat(Concat(sc.clientNonce, Str(<<",">>)),
                                                  sNonce),
                                           Str(<<",">>)), sNonce)]

\* setParams that stores the nonces and the iteration count but not the salt.
setParams_NoSalt(sc, cNonce, sNonce, salt, iters) ==
    [sc EXCEPT !.clientNonce = cNonce,
               !.iters = iters,
               !.serverNonce = sNonce,
               !.sigSecret = Concat(Concat(Concat(Concat(cNonce, Str(<<",">>)), sNonce),
                                           Str(<<",">>)), sNonce)]

setParams(sc, cNonce, sNonce, salt, iters) ==
    [sc EXCEPT !.clientNonce = cNonce,
               !.iters = iters,
               !.salt = salt,
               !.serverNonce = sNonce,
               !.sigSecret = Concat(Concat(Concat(Concat(cNonce, Str(<<",">>)), sNonce),
                                           Str(<<",">>)), sNonce)]

deriveKey(sc, hmacKey) ==
    HmacSHA256(PBKDF2(sc.pwd, HexParse(sc.salt), sc.iters), hmacKey)

\* clientKey XOR signature, word by word
XorWords(clientKey, signature) ==
    [f |-> "XOR", a |-> clientKey, b |-> signature, n |-> <<KEYSIZE>>]

\* (What the node build prints to the console here is not kept.)
calcProof(sc) ==
    LET clientKey == deriveKey(sc, "Client Key")
        storedKey == SHA256(clientKey)
        signature == HmacSHA256(storedKey, sc.sigSecret)
    IN  HexString(XorWords(clientKey, signature))

calcServerProof(sc) ==
    HexString(HmacSHA256(deriveKey(sc, "Server Key"), sc.sigSecret))

calcPubSig(sc, key) ==
    LET serverKey == deriveKey(sc, "Server Key")
        publicKey == HexParse(key)
    IN  HexString(HmacSHA256(publicKey, serverKey))

(***************************************************************************)
(* Errors, promises and the event history.                                 *)
(***************************************************************************)
\* new Error(msg + arg): arg is the part of the message taken from data
Err(msg, arg) == [name |-> "Error", msg |-> msg, arg |-> arg]

\* reading a property or an index of undefined
TypeErr == [name |-> "TypeError", msg |-> "Cannot read property of undefined", arg |-> <<>>]

\* evaluating the undeclared global window
RefErr == [name |-> "ReferenceError", msg |-> "window is not defined", arg |-> <<>>]

\* the rejection of axios for a transport failure or a non-2xx status
AxiosErr == [name |-> "Error", msg |-> "Request failed", arg |-> <<>>]

\* xml2js' error for a document that is not well-formed
XmlErr == [name |-> "Error", msg |-> "Invalid XML", arg |-> <<>>]

NoErr == [name |-> "", msg |-> "", arg |-> <<>>]

\* error.message
Message(e) == <<e.msg>> \o e.arg

Pending == [state |-> "pending", error |-> NoErr, value |-> Undef]

\* resolve(v) and reject(e) of a promise executor: the first settlement
\* stands, a later one is ignored.
Resolve(p, v) ==
    IF p.state = "pending" THEN [state |-> "fulfilled", error |-> NoErr, value |-> v] ELSE p

Reject(p, e) ==
    IF p.state = "pending" THEN [state |-> "rejected", error |-> e, value |-> Undef] ELSE p

\* Outcome of a .then callback that does not build a promise itself.
Returned(v) == [state |-> "fulfilled", error |-> NoErr, value |-> v]
Threw(e) == [state |-> "rejected", error |-> e, value |-> Undef]

HasWindow == env = "browser"
HasDocument == env = "browser"

(***************************************************************************)
(* HwEndpoints, HwRequest and the replies of the device.                   *)
(***************************************************************************)
ROOT == "/"
TOKEN == "/api/webserver/token"
SCRAM_PHASE_ONE == "/api/user/challenge_login"
SCRAM_PHASE_TWO == "/api/user/authentication_login"

\* axios.get(uri, DEFAULT_GETOPTS)
GetRequest(uri) ==
    [method |-> "get", uri |-> uri, contentType |-> "", token |-> Undef, fields |-> <<>>]

\* new HwRequest(uri, headers)
NewRequest(uri, contentType, token) ==
    [method |-> "post", uri |-> uri, contentType |-> contentType, token |-> token,
     fields |-> <<>>]

\* HwRequest.add: appends <node>content</node> to the body
add(req, node, content) == [req EXCEPT !.fields = Append(@, <<node, content>>)]

\* An XML document as xml2js presents it: at most one of the root elements
\* error and response.  A field the document lacks is undefined; result.x[0]
\* of a present field is its text.
NoErrorElem == [present |-> FALSE, waittime |-> Undef]

NoResponseElem ==
    [present |-> FALSE, token |-> Undef, servernonce |-> Undef, salt |-> Undef,
     iterations |-> Undef, serversignature |-> Undef, rsapubkeysignature |-> Undef,
     rsan |-> Undef, rsae |-> Undef]

Malformed == [wellFormed |-> FALSE, error |-> NoErrorElem, response |-> NoResponseElem]

ErrorDoc(waittime) ==
    [wellFormed |-> TRUE, error |-> [present |-> TRUE, waittime |-> waittime],
     response |-> NoResponseElem]

ResponseDoc(fields) == [wellFormed |-> TRUE, error |-> NoErrorElem, response |-> fields]

\* parseXmlStr(text, callback): the (err, result) the callback is called with
parseXmlStr(doc) ==
    IF doc.wellFormed
    THEN [err |-> NoErr, defined |-> TRUE, error |-> doc.error, response |-> doc.response]
    ELSE [err |-> XmlErr, defined |-> FALSE, error |-> NoErrorElem,
          response |-> NoResponseElem]

\* An HTTP reply as axios hands it over: resolved is FALSE when axios rejects.
\* token and tokenOne are the headers __requestverificationtoken and
\* __requestverificationtokenone.
Reply(resolved, statusText, token, tokenOne, data) ==
    [resolved |-> resolved, statusText |-> statusText, token |-> token,
     tokenOne |-> tokenOne, data |-> data]

(***************************************************************************)
(* The HwApi object and what the device may answer.                        *)
(***************************************************************************)
\* new HwApi(server, user, pwd)
AuthUser == Str(<<"a", "d", "m", "i", "n">>)
AuthPwd == Str(<<"a", "d", "m", "i", "n">>)

\* A password the device's impostor might use instead.
OtherPwd == Str(<<"g", "u", "e", "s", "s">>)

\* token[0].substring(32)
TokenPrefixLen == 32

Bool(b) == [t |-> "boolean", v |-> <<b>>]

RootReplies ==
    {Reply(TRUE, "OK", Undef, Undef, Malformed),
     Reply(TRUE, "No Content", Undef, Undef, Malformed),
     Reply(TRUE, "", Undef, Undef, Malformed),
     Reply(FALSE, "Internal Server Error", Undef, Undef, Malformed)}

LongToken == Str([i \in 1..TokenPrefixLen |-> "x"] \o <<"T", "0">>)
ShortToken == Str(<<"T", "0">>)

TokenDoc(token) == ResponseDoc([NoResponseElem EXCEPT !.present = TRUE, !.token = token])

TokenReplies ==
    {Reply(FALSE, "Internal Server Error", Undef, Undef, Malformed)}
    \cup {Reply(TRUE, "OK", Undef, Undef, d) :
            d \in {Malformed, ErrorDoc(Undef), TokenDoc(Undef), TokenDoc(LongToken),
                   TokenDoc(ShortToken)}}

ServerNonces == {Str(<<"c", "1", "5", "e">>)}
Salts == {Str(<<"a", "a", "b", "b">>), Str(<<"z", "z">>)}
IterationTexts ==
    {Str(<<"1", "0", "0", "0">>), Str(<<"0">>), Str(<<"-", "5">>), Str(<<"a", "b", "c">>)}
WaitTimes == {Str(<<"5">>), Undef}

ChallengeDoc(sNonce, salt, iterations) ==
    ResponseDoc([NoResponseElem EXCEPT !.present = TRUE, !.servernonce = sNonce,
                                       !.salt = salt, !.iterations = iterations])

PhaseOneDocs ==
    {Malformed}
    \cup {ErrorDoc(w) : w \in WaitTimes}
    \cup {ChallengeDoc(n, s, i) : n \in ServerNonces, s \in Salts \cup {Undef},
                                  i \in IterationTexts}

PhaseOneReplies ==
    {Reply(FALSE, "Internal Server Error", Undef, Undef, Malformed)}
    \cup {Reply(TRUE, "OK", t, Undef, d) : t \in {Undef, Str(<<"V", "1">>)},
                                          d \in PhaseOneDocs}

Moduli == {Str(<<"c", "3">>), Str(<<"0", "7">>)}
Exponents == {Str(<<"0", "3">>), Str(<<"1", "1">>)}

AuthDoc(serversignature, rsapubkeysignature, rsan, rsae) ==
    ResponseDoc([NoResponseElem EXCEPT !.present = TRUE,
                                       !.serversignature = serversignature,
                                       !.rsapubkeysignature = rsapubkeysignature,
                                       !.rsan = rsan, !.rsae = rsae])

\* What a device knowing the password sends for the parameters sc, and what
\* one that does not know it sends.
PhaseTwoDocs(sc) ==
    LET other == [sc EXCEPT !.pwd = OtherPwd]
    IN  {Malformed}
        \cup {AuthDoc(ss, ps, n, e) :
                ss \in {calcServerProof(sc), calcServerProof(other)},
                ps \in UNION {{calcPubSig(sc, m), calcPubSig(other, m)} : m \in Moduli},
                n \in Moduli, e \in Exponents \cup {Undef}}

PhaseTwoReplies(sc) ==
    {Reply(FALSE, "Internal Server Error", Undef, Undef, Malformed)}
    \cup {Reply(TRUE, "OK", Undef, t, d) : t \in {Undef, Str(<<"V", "2">>)},
                                          d \in PhaseTwoDocs(sc)}

(***************************************************************************)
(* The callbacks of HwApi.login, as functions of what they read.           *)
(***************************************************************************)
\* initSession: the promise it returns
initSession(reply) ==
    IF reply.resolved THEN Returned(Bool(reply.statusText = "OK")) ELSE Threw(AxiosErr)

\* getServerToken: the promise it returns
getServerToken(reply) ==
    IF ~reply.resolved
    THEN Threw(AxiosErr)
    ELSE LET r == parseXmlStr(reply.data)
         IN  IF ~r.defined \/ ~r.response.present
             THEN Threw(TypeErr)
             ELSE Returned(r.response.token)

\* The first SCRAM POST
PhaseOneRequest(token, user, cNonce) ==
    add(add(add(NewRequest(SCRAM_PHASE_ONE, "text/html", Substring(token, TokenPrefixLen)),
                "username", user),
            "firstnonce", cNonce),
        "mode", Str(<<"1">>))

\* TokenMissing without the test: a reply without the header passes.
TokenMissing_Never(token) == FALSE

\* The test that the phase-one reply carried no verification token
TokenMissing(token) == IsNull(token)

TooMany(waitTime) ==
    Err("Too many incorrect login attempts, try again in {} minutes.", ToStr(waitTime))

\* PhaseOneParse without the test for an error element.
PhaseOneParse_NoErrorCheck(sc, cNonce, sNonce, doc) ==
    LET r == parseXmlStr(doc)
        out(p, sc1, sn1, ev) == [promise |-> p, scram |-> sc1, serverNonce |-> sn1, ev |-> ev]
    IN  IF ~r.defined \/ ~r.response.present \/ IsNull(r.response.servernonce)
        THEN out(Reject(Pending, TypeErr), sc, sNonce, <<"throw">>)
        ELSE IF IsNull(r.response.salt) \/ IsNull(r.response.iterations)
        THEN out(Reject(Pending, TypeErr), sc, r.response.servernonce, <<"throw">>)
        ELSE LET iterations == parseInt(r.response.iterations, 10)
                 sc1 == setParams(sc, cNonce, r.response.servernonce, r.response.salt,
                                  iterations)
             IN  out(Resolve(Pending, calcProof(sc1)), sc1, r.response.servernonce,
                     <<"setParams", "calcProof", "resolve">>)

\* The promise built around the parse of the phase-one reply: how it
\* settles, the HwScramAuth object and serverNonce afterwards, and the
\* events in order.
PhaseOneParse(sc, cNonce, sNonce, doc) ==
    LET r == parseXmlStr(doc)
        out(p, sc1, sn1, ev) == [promise |-> p, scram |-> sc1, serverNonce |-> sn1, ev |-> ev]
    IN  IF ~r.defined
        THEN \* result.error of an undefined result
             out(Reject(Pending, TypeErr), sc, sNonce, <<"throw">>)
        ELSE LET p1 == IF r.error.present
                       THEN Reject(Pending, TooMany(r.error.waittime))
                       ELSE IF r.err # NoErr THEN Reject(Pending, r.err) ELSE Pending
                 ev1 == IF p1.state = "rejected" THEN <<"reject">> ELSE <<>>
             IN  IF ~r.response.present \/ IsNull(r.response.servernonce)
                 THEN out(Reject(p1, TypeErr), sc, sNonce, ev1 \o <<"throw">>)
                 ELSE IF IsNull(r.response.salt) \/ IsNull(r.response.iterations)
                 THEN out(Reject(p1, TypeErr), sc, r.response.servernonce, ev1 \o <<"throw">>)
                 ELSE LET iterations == parseInt(r.response.iterations, 10)
                          sc1 == setParams(sc, cNonce, r.response.servernonce,
                                           r.response.salt, iterations)
                      IN  out(Resolve(p1, calcProof(sc1)), sc1, r.response.servernonce,
                              ev1 \o <<"setParams", "calcProof", "resolve">>)

\* PhaseTwoRequest with the values of its two fields exchanged.
PhaseTwoRequest_Swapped(token, loginProof, sNonce) ==
    add(add(NewRequest(SCRAM_PHASE_TWO, "application/x-www-form-urlencoded; charset=UTF-8",
                       token),
            "clientproof", sNonce),
        "finalnonce", loginProof)

\* The final SCRAM POST
PhaseTwoRequest(token, loginProof, sNonce) ==
    add(add(NewRequest(SCRAM_PHASE_TWO, "application/x-www-form-urlencoded; charset=UTF-8",
                       token),
            "clientproof", loginProof),
        "finalnonce", sNonce)

\* PhaseTwoHeaderStep that assigns the alternate header to veriToken whether
\* or not the reply carries it.
PhaseTwoHeaderStep_Overwrite(token, reply) ==
    IF ~IsNull(reply.tokenOne)
    THEN [veriToken |-> reply.tokenOne, out |-> Returned(reply.data),
          ev |-> <<"log Logged in successfully">>]
    ELSE [veriToken |-> reply.tokenOne, out |-> Returned(reply.data), ev |-> <<>>]

\* PhaseTwoHeaderStep that keeps the phase-one token whatever the reply
\* carries.
PhaseTwoHeaderStep_Keep(token, reply) ==
    IF ~IsNull(reply.tokenOne)
    THEN [veriToken |-> token, out |-> Returned(reply.data),
          ev |-> <<"log Logged in successfully">>]
    ELSE IF IsNull(token)
    THEN [veriToken |-> token,
          out |-> Threw(Err("Server did not supply new verification token", <<>>)),
          ev |-> <<"throw">>]
    ELSE [veriToken |-> token, out |-> Returned(reply.data), ev |-> <<>>]

\* The header step of the phase-two reply: veriToken afterwards, whether it
\* throws, and the events.
PhaseTwoHeaderStep(token, reply) ==
    IF ~IsNull(reply.tokenOne)
    THEN [veriToken |-> reply.tokenOne, out |-> Returned(reply.data),
          ev |-> <<"log Logged in successfully">>]
    ELSE IF IsNull(token)
    THEN [veriToken |-> token,
          out |-> Threw(Err("Server did not supply new verification token", <<>>)),
          ev |-> <<"throw">>]
    ELSE [veriToken |-> token, out |-> Returned(reply.data), ev |-> <<>>]

\* ServerProofMatches with the comparison left out.
ServerProofMatches_Skipped(calc, resProof) == TRUE

\* calcProof === resProof
ServerProofMatches(calc, resProof) == calc = resProof

\* PubKeySigMatches with the comparison left out.
PubKeySigMatches_Skipped(serverSig, pubKeySig) == TRUE

\* serverSig === pubKeySig
PubKeySigMatches(serverSig, pubKeySig) == serverSig = pubKeySig

\* 'rsan=' + rsaN + ', rsae=' + rsaE
RsaData(rsaN, rsaE) ==
    ToStr(Concat(Concat(Concat(Str(<<"r", "s", "a", "n", "=">>), rsaN),
                        Str(<<",", " ", "r", "s", "a", "e", "=">>)), rsaE))

\* VerifyServer that stores the modulus and leaves the stored exponent alone.
VerifyServer_ModulusOnly(sc, doc, ls, page) ==
    LET r == parseXmlStr(doc)
        p1 == IF r.err # NoErr
              THEN Reject(Pending, Err("SCRAM auth failed. ", Message(r.err)))
              ELSE Pending
        ev1 == IF r.err # NoErr THEN <<"reject">> ELSE <<>>
        wrapped(e) == Err("Failed to generate server proof. ", <<e.name>>)
        fail(e, ev) == [promise |-> Reject(p1, e), localStorage |-> ls, dom |-> page,
                        wrote |-> FALSE, proofOK |-> FALSE, sigOK |-> FALSE,
                        ev |-> ev1 \o ev \o <<"reject">>]
        calc == calcServerProof(sc)
        evProof == <<"calcServerProof">>
    IN  IF ~r.defined \/ ~r.response.present \/ IsNull(r.response.serversignature)
        THEN fail(wrapped(TypeErr), evProof \o <<"throw">>)
        ELSE IF ~ServerProofMatches(calc, r.response.serversignature)
        THEN fail(Err("Could not verify server identity.", <<>>), evProof)
        ELSE IF IsNull(r.response.rsapubkeysignature) \/ IsNull(r.response.rsan)
        THEN fail(wrapped(TypeErr), evProof \o <<"throw">>)
        ELSE LET pubKeySig == calcPubSig(sc, r.response.rsan)
                 evSig == evProof \o <<"calcPubSig">>
             IN  IF ~PubKeySigMatches(r.response.rsapubkeysignature, pubKeySig)
                 THEN fail(Err("Server provided an invalid RSA public key.", <<>>), evSig)
                 ELSE IF ~HasWindow
                 THEN fail(wrapped(RefErr), evSig \o <<"throw">>)
                 ELSE IF IsNull(r.response.rsae)
                 THEN fail(wrapped(TypeErr), evSig \o <<"throw">>)
                 ELSE [promise |-> p1,
                       localStorage |-> [rsan |-> r.response.rsan, rsae |-> ls.rsae],
                       dom |-> IF HasDocument
                               THEN [h2 |-> "Logged in!",
                                     code |-> RsaData(r.response.rsan, r.response.rsae)]
                               ELSE page,
                       wrote |-> TRUE,
                       proofOK |-> calc = r.response.serversignature,
                       sigOK |-> r.response.rsapubkeysignature = pubKeySig,
                       ev |-> ev1 \o evSig \o <<"setItem rsan", "setItem rsae">>
                              \o (IF HasDocument
                                  THEN <<"show Logged in!">>
                                  ELSE <<"log Server identity successfully verified.">>)]

\* The promise built around the parse of the phase-two reply: how it
\* settles, localStorage and the page afterwards, and the events in order.
\* wrote tells whether rsan and rsae were stored, and proofOK and sigOK what
\* the two pairs of values compared were at that point.
VerifyServer(sc, doc, ls, page) ==
    LET r == parseXmlStr(doc)
        p1 == IF r.err # NoErr
              THEN Reject(Pending, Err("SCRAM auth failed. ", Message(r.err)))
              ELSE Pending
        ev1 == IF r.err # NoErr THEN <<"reject">> ELSE <<>>
        wrapped(e) == Err("Failed to generate server proof. ", <<e.name>>)
        fail(e, ev) == [promise |-> Reject(p1, e), localStorage |-> ls, dom |-> page,
                        wrote |-> FALSE, proofOK |-> FALSE, sigOK |-> FALSE,
                        ev |-> ev1 \o ev \o <<"reject">>]
        calc == calcServerProof(sc)
        evProof == <<"calcServerProof">>
    IN  IF ~r.defined \/ ~r.response.present \/ IsNull(r.response.serversignature)
        THEN fail(wrapped(TypeErr), evProof \o <<"throw">>)
        ELSE IF ~ServerProofMatches(calc, r.response.serversignature)
        THEN fail(Err("Could not verify server identity.", <<>>), evProof)
        ELSE IF IsNull(r.response.rsapubkeysignature) \/ IsNull(r.response.rsan)
        THEN fail(wrapped(TypeErr), evProof \o <<"throw">>)
        ELSE LET pubKeySig == calcPubSig(sc, r.response.rsan)
                 evSig == evProof \o <<"calcPubSig">>
             IN  IF ~PubKeySigMatches(r.response.rsapubkeysignature, pubKeySig)
                 THEN fail(Err("Server provided an invalid RSA public key.", <<>>), evSig)
                 ELSE IF ~HasWindow
                 THEN fail(wrapped(RefErr), evSig \o <<"throw">>)
                 ELSE IF IsNull(r.response.rsae)
                 THEN fail(wrapped(TypeErr), evSig \o <<"throw">>)
                 ELSE [promise |-> p1,
                       localStorage |-> [rsan |-> r.response.rsan, rsae |-> r.response.rsae],
                       dom |-> IF HasDocument
                               THEN [h2 |-> "Logged in!",
                                     code |-> RsaData(r.response.rsan, r.response.rsae)]
                               ELSE page,
                       wrote |-> TRUE,
                       proofOK |-> calc = r.response.serversignature,
                       sigOK |-> r.response.rsapubkeysignature = pubKeySig,
                       ev |-> ev1 \o evSig \o <<"setItem rsan", "setItem rsae">>
                              \o (IF HasDocument
                                  THEN <<"show Logged in!">>
                                  ELSE <<"log Server identity successfully verified.">>)]

\* The .catch handler: the page afterwards
ErrorHandler(error, page) ==
    IF HasDocument THEN [h2 |-> "Error while logging in", code |-> Message(error)] ELSE page

\* The well-formed answers a device gives that speaks the protocol: the
\* session, a token, a challenge, and an authentication document whose two
\* proofs are those of a device that knows the password or of one that
\* does not.
OrderlyReplies(sc) ==
    LET other == [sc EXCEPT !.pwd = OtherPwd]
    IN  {Reply(TRUE, "OK", Undef, Undef, Malformed),
         Reply(TRUE, "OK", Undef, Undef, TokenDoc(LongToken))}
        \cup {Reply(TRUE, "OK", Str(<<"V", "1">>), Undef,
                    ChallengeDoc(n, Str(<<"a", "a", "b", "b">>),
                                 Str(<<"1", "0", "0", "0">>))) : n \in ServerNonces}
        \cup {Reply(TRUE, "OK", Undef, Undef,
                    AuthDoc(calcServerProof(p), calcPubSig(q, n), n, e)) :
                 p \in {sc, other}, q \in {sc, other}, n \in Moduli, e \in Exponents}

\* The replies of the set S the device draws from.
Offered(S, sc) == IF device = "any" THEN S ELSE S \cap OrderlyReplies(sc)

(***************************************************************************)
(* The state machine.                                                      *)
(***************************************************************************)
NoKey == [rsan |-> Undef, rsae |-> Undef]
NoWrite == [attempt |-> 0, rsan |-> Undef, rsae |-> Undef, proofOK |-> FALSE, sigOK |-> FALSE]
BlankPage == [h2 |-> "", code |-> <<>>]

NoXor == [i |-> 0, n |-> 0, clientKey |-> <<>>, signature |-> <<>>, words |-> <<>>]

Idle(a) == pc[a] \in {"idle", "done"}

Init ==
    /\ env \in {"browser", "node"}
    /\ device = "any"
    /\ localStorage = NoKey
    /\ dom = BlankPage
    /\ logins = 0
    /\ par = 1
    /\ lastWrite = NoWrite
    /\ pc = [a \in Attempts |-> "idle"]
    /\ clientNonce = [a \in Attempts |-> Undef]
    /\ serverNonce = [a \in Attempts |-> Undef]
    /\ veriToken = [a \in Attempts |-> Undef]
    /\ scram = [a \in Attempts |-> NewScram(AuthPwd)]
    /\ sent = [a \in Attempts |-> <<>>]
    /\ rcvd = [a \in Attempts |-> <<>>]
    /\ chain = [a \in Attempts |-> "pending"]
    /\ caught = [a \in Attempts |-> <<>>]
    /\ retVal = [a \in Attempts |-> <<>>]
    /\ lsAtStart = [a \in Attempts |-> NoKey]
    /\ trace = [a \in Attempts |-> <<>>]
    /\ auth = NewScram(AuthPwd)
    /\ calls = <<>>
    /\ xor = NoXor

\* The chain's promise rejects with error after the events ev: the .catch
\* handler runs and nothing of the attempt is left to run.
Fail(a, error, ev) ==
    /\ chain' = [chain EXCEPT ![a] = "rejected"]
    /\ caught' = [caught EXCEPT ![a] = Append(@, error)]
    /\ dom' = ErrorHandler(error, dom)
    /\ trace' = [trace EXCEPT ![a] = @ \o ev \o <<"catch">>]
    /\ pc' = [pc EXCEPT ![a] = "done"]

\* The attempt issues request req after the events ev and suspends on it.
Send(a, req, ev, next) ==
    /\ sent' = [sent EXCEPT ![a] = Append(@, req)]
    /\ trace' = [trace EXCEPT ![a] = @ \o ev \o <<"send">>]
    /\ pc' = [pc EXCEPT ![a] = next]
    /\ UNCHANGED <<chain, caught, dom>>

\* A call of login(): the locals are created, initSession issues the root
\* GET, the chain is built and login() returns veriToken.  The caller uses
\* the lowest free attempt and keeps at most par attempts running; an
\* attempt that has ended leaves nothing behind but localStorage and the
\* page, so its slot is used again by the next call.
Login(a) ==
    /\ logins < MaxLogins
    /\ Idle(a)
    /\ \A b \in Attempts : b < a => ~Idle(b)
    /\ Cardinality({b \in Attempts : ~Idle(b)}) < par
    /\ logins' = logins + 1
    /\ scram' = [scram EXCEPT ![a] = NewScram(AuthPwd)]
    /\ clientNonce' = [clientNonce EXCEPT ![a] = generateNonce(logins')]
    /\ serverNonce' = [serverNonce EXCEPT ![a] = Undef]
    /\ veriToken' = [veriToken EXCEPT ![a] = Undef]
    /\ sent' = [sent EXCEPT ![a] = <<GetRequest(ROOT)>>]
    /\ rcvd' = [rcvd EXCEPT ![a] = <<>>]
    /\ chain' = [chain EXCEPT ![a] = "pending"]
    /\ caught' = [caught EXCEPT ![a] = <<>>]
    /\ retVal' = [retVal EXCEPT ![a] = <<veriToken'[a]>>]
    /\ lsAtStart' = [lsAtStart EXCEPT ![a] = localStorage]
    /\ trace' = [trace EXCEPT ![a] = <<"generateNonce", "send", "return">>]
    /\ pc' = [pc EXCEPT ![a] = "awaitRoot"]
    /\ UNCHANGED <<env, device, unit, localStorage, dom, par, lastWrite>>

\* RootReply with a session step that asks for the root page again when the
\* reply is not OK, instead of throwing.
RootReply_Retry(a) ==
    /\ pc[a] = "awaitRoot"
    /\ \E reply \in Offered(RootReplies, scram[a]) :
         LET ok == initSession(reply)
         IN  /\ rcvd' = [rcvd EXCEPT ![a] = Append(@, reply)]
             /\ IF ok.state = "rejected"
                THEN Fail(a, ok.error, <<"recv", "throw">>) /\ UNCHANGED sent
                ELSE IF ok.value = Bool(TRUE)
                THEN Send(a, GetRequest(TOKEN), <<"recv">>, "awaitToken")
                ELSE Send(a, GetRequest(ROOT), <<"recv">>, "awaitRoot")
    /\ UNCHANGED <<env, device, unit, localStorage, logins, par, lastWrite, clientNonce, serverNonce,
                   veriToken, scram, retVal, lsAtStart>>

\* The reply to the root GET arrives: initSession ends and the session
\* step requests the token or throws.
RootReply(a) ==
    /\ pc[a] = "awaitRoot"
    /\ \E reply \in Offered(RootReplies, scram[a]) :
         LET ok == initSession(reply)
         IN  /\ rcvd' = [rcvd EXCEPT ![a] = Append(@, reply)]
             /\ IF ok.state = "rejected"
                THEN Fail(a, ok.error, <<"recv", "throw">>) /\ UNCHANGED sent
                ELSE IF ok.value = Bool(TRUE)
                THEN Send(a, GetRequest(TOKEN), <<"recv">>, "awaitToken")
                ELSE Fail(a, Err("Session failed to initialize", <<>>), <<"recv", "throw">>)
                     /\ UNCHANGED sent
    /\ UNCHANGED <<env, device, unit, localStorage, logins, par, lastWrite, clientNonce, serverNonce,
                   veriToken, scram, retVal, lsAtStart>>

\* The reply to the token GET arrives: getServerToken ends and the first
\* SCRAM POST is sent.
TokenReply(a) ==
    /\ pc[a] = "awaitToken"
    /\ \E reply \in Offered(TokenReplies, scram[a]) :
         LET token == getServerToken(reply)
             ev == IF reply.resolved THEN <<"recv", "parse">> ELSE <<"recv">>
         IN  /\ rcvd' = [rcvd EXCEPT ![a] = Append(@, reply)]
             /\ IF token.state = "rejected"
                THEN Fail(a, token.error, ev \o <<"throw">>) /\ UNCHANGED sent
                ELSE IF IsNull(token.value)
                THEN \* token[0] of undefined
                     Fail(a, TypeErr, ev \o <<"throw">>) /\ UNCHANGED sent
                ELSE Send(a, PhaseOneRequest(token.value, AuthUser, clientNonce[a]),
                          ev, "awaitPhaseOne")
    /\ UNCHANGED <<env, device, unit, localStorage, logins, par, lastWrite, clientNonce, serverNonce,
                   veriToken, scram, retVal, lsAtStart>>

\* The reply to the first SCRAM POST arrives: the header step, the parse
\* step and, when the proof was computed, the final SCRAM POST.
PhaseOneReply(a) ==
    /\ pc[a] = "awaitPhaseOne"
    /\ \E reply \in Offered(PhaseOneReplies, scram[a]) :
         /\ rcvd' = [rcvd EXCEPT ![a] = Append(@, reply)]
         /\ IF ~reply.resolved
            THEN /\ Fail(a, AxiosErr, <<"recv", "throw">>)
                 /\ UNCHANGED <<sent, veriToken, serverNonce, scram>>
            ELSE /\ veriToken' = [veriToken EXCEPT ![a] = reply.token]
                 /\ IF TokenMissing(reply.token)
                    THEN /\ Fail(a, Err("Server did not supply verification token", <<>>),
                                 <<"recv", "throw">>)
                         /\ UNCHANGED <<sent, serverNonce, scram>>
                    ELSE LET step == PhaseOneParse(scram[a], clientNonce[a], serverNonce[a],
                                                   reply.data)
                         IN  /\ scram' = [scram EXCEPT ![a] = step.scram]
                             /\ serverNonce' = [serverNonce EXCEPT ![a] = step.serverNonce]
                             /\ IF step.promise.state = "fulfilled"
                                THEN Send(a, PhaseTwoRequest(reply.token, step.promise.value,
                                                             step.serverNonce),
                                          <<"recv", "parse">> \o step.ev, "awaitPhaseTwo")
                                ELSE Fail(a, step.promise.error,
                                          <<"recv", "parse">> \o step.ev)
                                     /\ UNCHANGED sent
    /\ UNCHANGED <<env, device, unit, localStorage, logins, par, lastWrite, clientNonce, retVal,
                   lsAtStart>>

\* The reply to the final SCRAM POST arrives: the header step and the
\* verification of the server.  Nothing of the attempt runs afterwards.
PhaseTwoReply(a) ==
    /\ pc[a] = "awaitPhaseTwo"
    /\ \E reply \in Offered(PhaseTwoReplies(scram[a]), scram[a]) :
         /\ rcvd' = [rcvd EXCEPT ![a] = Append(@, reply)]
         /\ IF ~reply.resolved
            THEN /\ Fail(a, AxiosErr, <<"recv", "throw">>)
                 /\ UNCHANGED <<veriToken, localStorage, lastWrite>>
            ELSE LET hdr == PhaseTwoHeaderStep(veriToken[a], reply)
                 IN  /\ veriToken' = [veriToken EXCEPT ![a] = hdr.veriToken]
                     /\ IF hdr.out.state = "rejected"
                        THEN /\ Fail(a, hdr.out.error, <<"recv">> \o hdr.ev)
                             /\ UNCHANGED <<localStorage, lastWrite>>
                        ELSE LET step == VerifyServer(scram[a], reply.data, localStorage, dom)
                                 ev == <<"recv">> \o hdr.ev \o <<"parse">> \o step.ev
                             IN  /\ localStorage' = step.localStorage
                                 /\ lastWrite' =
                                      IF step.wrote
                                      THEN [attempt |-> a,
                                            rsan |-> reply.data.response.rsan,
                                            rsae |-> reply.data.response.rsae,
                                            proofOK |-> step.proofOK, sigOK |-> step.sigOK]
                                      ELSE lastWrite
                                 /\ IF step.promise.state = "rejected"
                                    THEN /\ chain' = [chain EXCEPT ![a] = "rejected"]
                                         /\ caught' = [caught EXCEPT ![a] =
                                                         Append(@, step.promise.error)]
                                         /\ dom' = ErrorHandler(step.promise.error, step.dom)
                                         /\ trace' = [trace EXCEPT ![a] = @ \o ev \o <<"catch">>]
                                    ELSE /\ chain' = [chain EXCEPT ![a] = step.promise.state]
                                         /\ dom' = step.dom
                                         /\ trace' = [trace EXCEPT ![a] = @ \o ev]
                                         /\ UNCHANGED caught
                                 /\ pc' = [pc EXCEPT ![a] = "done"]
    /\ UNCHANGED <<env, device, unit, logins, par, clientNonce, serverNonce, scram, sent, retVal,
                   lsAtStart>>

Next ==
    \E a \in Attempts :
        \/ Login(a)
        \/ RootReply(a)
        \/ TokenReply(a)
        \/ PhaseOneReply(a)
        \/ PhaseTwoReply(a)

Spec == Init /\ [][Next]_vars

\* A caller that keeps two login() calls in flight, against a device that
\* speaks the protocol: the replies of the two attempts arrive in any order.
InitConc ==
    /\ env \in {"browser", "node"}
    /\ device = "orderly"
    /\ localStorage = NoKey
    /\ dom = BlankPage
    /\ logins = 0
    /\ par = 2
    /\ lastWrite = NoWrite
    /\ pc = [a \in Attempts |-> "idle"]
    /\ clientNonce = [a \in Attempts |-> Undef]
    /\ serverNonce = [a \in Attempts |-> Undef]
    /\ veriToken = [a \in Attempts |-> Undef]
    /\ scram = [a \in Attempts |-> NewScram(AuthPwd)]
    /\ sent = [a \in Attempts |-> <<>>]
    /\ rcvd = [a \in Attempts |-> <<>>]
    /\ chain = [a \in Attempts |-> "pending"]
    /\ caught = [a \in Attempts |-> <<>>]
    /\ retVal = [a \in Attempts |-> <<>>]
    /\ lsAtStart = [a \in Attempts |-> NoKey]
    /\ trace = [a \in Attempts |-> <<>>]
    /\ auth = NewScram(AuthPwd)
    /\ calls = <<>>
    /\ xor = NoXor

SpecConc == InitConc /\ [][Next]_vars

(***************************************************************************)
(* A HwScramAuth object driven directly: any sequence of its public        *)
(* methods, with any of a few arguments.                                   *)
(***************************************************************************)
loginVars == <<env, device, localStorage, dom, logins, par, lastWrite, pc, clientNonce,
               serverNonce, veriToken, scram, sent, rcvd, chain, caught, retVal,
               lsAtStart, trace>>

NonceTexts == {Str(<<"c", "1">>), Str(<<"5", "e">>)}

\* A call of a method, as the history keeps it: the object before and
\* after, and the value returned.
Called(fn, args, before, after, value) ==
    [fn |-> fn, args |-> args, before |-> before, after |-> after, value |-> value]

\* calcProof that keeps the signature it computed as the object's AuthMessage.
calcProofCall_KeepsSignature(sc) ==
    [self |-> [sc EXCEPT !.sigSecret = HexString(HmacSHA256(SHA256(deriveKey(sc, "Client Key")),
                                                            sc.sigSecret))],
     value |-> calcProof(sc)]

\* The three proof methods as calls: the object afterwards and the value
\* returned.  None of them assigns a field of the object; the WordArray
\* calcProof XORs in place is the one deriveKey has just built for it.
calcProofCall(sc) == [self |-> sc, value |-> calcProof(sc)]

calcServerProofCall(sc) == [self |-> sc, value |-> calcServerProof(sc)]

calcPubSigCall(sc, key) == [self |-> sc, value |-> calcPubSig(sc, key)]

AuthSetParams ==
    /\ Len(calls) < MaxCalls
    /\ \E cNonce \in NonceTexts, sNonce \in NonceTexts :
         LET salt == Str(<<"a", "a", "b", "b">>)
             iters == Num(1000)
         IN  /\ auth' = setParams(auth, cNonce, sNonce, salt, iters)
             /\ calls' = Append(calls, Called("setParams", <<cNonce, sNonce, salt, iters>>,
                                              auth, auth', Undef))
    /\ UNCHANGED <<loginVars, xor>>

AuthCalcProof ==
    /\ Len(calls) < MaxCalls
    /\ LET c == calcProofCall(auth)
       IN  /\ auth' = c.self
           /\ calls' = Append(calls, Called("calcProof", <<>>, auth, auth', c.value))
    /\ UNCHANGED <<loginVars, xor>>

AuthCalcServerProof ==
    /\ Len(calls) < MaxCalls
    /\ LET c == calcServerProofCall(auth)
       IN  /\ auth' = c.self
           /\ calls' = Append(calls, Called("calcServerProof", <<>>, auth, auth', c.value))
    /\ UNCHANGED <<loginVars, xor>>

AuthCalcPubSig ==
    /\ Len(calls) < MaxCalls
    /\ LET key == Str(<<"c", "3">>)
           c == calcPubSigCall(auth, key)
       IN  /\ auth' = c.self
           /\ calls' = Append(calls, Called("calcPubSig", <<key>>, auth, auth', c.value))
    /\ UNCHANGED <<loginVars, xor>>

NextScram ==
    \/ AuthSetParams
    \/ AuthCalcProof
    \/ AuthCalcServerProof
    \/ AuthCalcPubSig

SpecScram == Init /\ [][NextScram]_vars

(***************************************************************************)
(* The XOR loop of calcProof on WordArrays whose words are known.  A       *)
(* 32-bit word is kept as its two 16-bit halves, <<high, low>>.            *)
(***************************************************************************)
\* x ^ y on the lowest bits binary digits
RECURSIVE XorBits(_, _, _)
XorBits(x, y, bits) ==
    IF bits = 0
    THEN 0
    ELSE ((x + y) % 2) + 2 * XorBits(x \div 2, y \div 2, bits - 1)

\* clientKey.words[i] ^ signature.words[i]
XorWord(w, v) == <<XorBits(w[1], v[1], 16), XorBits(w[2], v[2], 16)>>

\* A WordArray as CryptoJS builds a digest: sigBytes is four per word
WordArray(words) == [words |-> words, sigBytes |-> 4 * Len(words)]

\* The indices that leave out the last word.
XorIndices_AllButLast(clientKey) == 0..(clientKey.sigBytes \div 4 - 2)

\* [...Array(clientKey.sigBytes / 4).keys()]
XorIndices(clientKey) == 0..(clientKey.sigBytes \div 4 - 1)

\* Words with no bit, every bit, the top and the bottom bit, and mixed bits
SomeWords == <<<<0, 0>>, <<65535, 65535>>, <<32768, 1>>, <<4660, 22136>>, <<43690, 21845>>>>

\* SHA-256 digests (eight words) the two HMACs may return
SomeDigests ==
    {WordArray([k \in 1..8 |-> SomeWords[((k * m + r) % Len(SomeWords)) + 1]]) :
        m \in 1..2, r \in 0..(Len(SomeWords) - 1)}

\* calcProof reaches its loop with the two digests it has computed.
XorStart ==
    /\ xor = NoXor
    /\ \E clientKey \in SomeDigests, signature \in SomeDigests :
         xor' = [i |-> 0, n |-> Cardinality(XorIndices(clientKey)),
                 clientKey |-> clientKey.words, signature |-> signature.words,
                 words |-> clientKey.words]
    /\ UNCHANGED <<loginVars, auth, calls>>

\* One turn of the loop: the word at the next index is replaced in place.
XorTurn ==
    /\ xor # NoXor
    /\ xor.i < xor.n
    /\ xor' = [xor EXCEPT !.i = @ + 1,
                          !.words[xor.i + 1] = XorWord(xor.words[xor.i + 1],
                                                       xor.signature[xor.i + 1])]
    /\ UNCHANGED <<loginVars, auth, calls>>

NextXor ==
    \/ XorStart
    \/ XorTurn

SpecXor == Init /\ [][NextXor]_vars

(***************************************************************************)
(* Vocabulary of the properties.                                           *)
(***************************************************************************)
\* The order of the requests of an attempt, and the positions of the
\* phase-one and phase-two requests and replies in sent[a] and rcvd[a].
RequestOrder == <<ROOT, TOKEN, SCRAM_PHASE_ONE, SCRAM_PHASE_TWO>>
Pos(uri) == CHOOSE i \in 1..Len(RequestOrder) : RequestOrder[i] = uri
PhaseOnePos == Pos(SCRAM_PHASE_ONE)
PhaseTwoPos == Pos(SCRAM_PHASE_TWO)

Has(a, e) == \E i \in 1..Len(trace[a]) : trace[a][i] = e
Count(a, e) == Cardinality({i \in 1..Len(trace[a]) : trace[a][i] = e})
Before(a, e1, e2) ==
    \A j \in 1..Len(trace[a]) :
        trace[a][j] = e2 => \E i \in 1..(j - 1) : trace[a][i] = e1

\* The failure kinds of the specification, read off the error the .catch
\* handler is given.
Kind(e) ==
    CASE e.msg = "Session failed to initialize" -> "SessionError"
      [] e.msg \in {"Server did not supply verification token",
                    "Server did not supply new verification token"} -> "ProtocolError"
      [] e.msg = "Too many incorrect login attempts, try again in {} minutes." ->
            "RateLimitError"
      [] e.msg \in {"Could not verify server identity.",
                    "Server provided an invalid RSA public key."} -> "IdentityError"
      [] e.msg \in {"Failed to generate client proof. ",
                    "Failed to generate server proof. "} -> "CryptoError"
      [] OTHER -> "Other"

Verified(a) == chain[a] = "fulfilled"
Failed(a) == chain[a] = "rejected" /\ Len(caught[a]) = 1
FailedAs(a, kind) == Failed(a) /\ Kind(caught[a][1]) = kind

\* The attempt has run to its end: no callback of it is left to run.
Ended(a) == pc[a] = "done"

\* The phase-one reply of attempt a reached the parse step.
PhaseOneParsed(a) ==
    /\ Len(rcvd[a]) >= PhaseOnePos
    /\ rcvd[a][PhaseOnePos].resolved
    /\ ~IsNull(rcvd[a][PhaseOnePos].token)

\* The phase-two reply of attempt a carried the four fields.
PhaseTwoAnswered(a) ==
    /\ Len(rcvd[a]) >= PhaseTwoPos
    /\ rcvd[a][PhaseTwoPos].resolved
    /\ rcvd[a][PhaseTwoPos].data.wellFormed
    /\ rcvd[a][PhaseTwoPos].data.response.present

PhaseTwoFields(a) == rcvd[a][PhaseTwoPos].data.response

ProofWrong(a) == PhaseTwoFields(a).serversignature # calcServerProof(scram[a])
PubSigWrong(a) ==
    PhaseTwoFields(a).rsapubkeysignature # calcPubSig(scram[a], PhaseTwoFields(a).rsan)

ProofEvents == {"setParams", "calcProof", "calcServerProof", "calcPubSig"}
FailEvents == {"throw", "reject"}

(***************************************************************************)
(* C1                                                                      *)
(***************************************************************************)
\* C1: login() hands a result to its caller only after the attempt is
\* Verified or Failed, and for a Verified attempt the value handed over is
\* the current verification token, which is not empty.
C1_ReturnsFinalToken ==
    \A a \in Attempts :
        retVal[a] # <<>> =>
            /\ Verified(a) \/ Failed(a)
            /\ Verified(a) =>
                  /\ retVal[a][1] = veriToken[a]
                  /\ ~IsNull(retVal[a][1])
                  /\ ToStr(retVal[a][1]) # <<>>

(***************************************************************************)
(* C2                                                                      *)
(***************************************************************************)
\* C2: the stored rsan and rsae are absent, or they are the pair of the
\* latest write, which was made with the computed server proof equal to the
\* received serversignature and the computed public-key signature equal to
\* the received rsapubkeysignature; an attempt that has stored them received
\* exactly the values its HwScramAuth object computes, and computed both
\* before the first item was stored.
C2_KeyOnlyAfterBothChecks ==
    /\ \/ localStorage = NoKey /\ lastWrite = NoWrite
       \/ /\ localStorage = [rsan |-> lastWrite.rsan, rsae |-> lastWrite.rsae]
          /\ ~IsNull(localStorage.rsan) /\ ~IsNull(localStorage.rsae)
          /\ lastWrite.proofOK /\ lastWrite.sigOK
    /\ \A a \in Attempts :
          Has(a, "setItem rsan") \/ Has(a, "setItem rsae") =>
              /\ PhaseTwoAnswered(a)
              /\ ~ProofWrong(a) /\ ~PubSigWrong(a)
              /\ Before(a, "calcServerProof", "setItem rsan")
              /\ Before(a, "calcPubSig", "setItem rsan")
              /\ Before(a, "setItem rsan", "setItem rsae")

\* A second login has stored a key over the one of the first.
C2_Witness ==
    \E a \in Attempts :
        /\ Ended(a) /\ Has(a, "setItem rsae")
        /\ lsAtStart[a] # NoKey /\ localStorage # lsAtStart[a]

(***************************************************************************)
(* C3                                                                      *)
(***************************************************************************)
\* C3: an attempt whose phase-two reply carried a serversignature or an
\* rsapubkeysignature different from the computed value ends Failed with an
\* identity error and leaves rsan and rsae as they were when it began; a
\* wrong serversignature is reported as such and the public-key signature is
\* then not computed, whatever the rsapubkeysignature was.
C3_MismatchFailsKeyKept ==
    \A a \in Attempts :
        Ended(a) /\ PhaseTwoAnswered(a) /\ (ProofWrong(a) \/ PubSigWrong(a)) =>
            /\ FailedAs(a, "IdentityError")
            /\ localStorage = lsAtStart[a]
            /\ ~Has(a, "setItem rsan") /\ ~Has(a, "setItem rsae")
            /\ IF ProofWrong(a)
               THEN /\ caught[a][1].msg = "Could not verify server identity."
                    /\ ~Has(a, "calcPubSig")
               ELSE /\ caught[a][1].msg = "Server provided an invalid RSA public key."
                    /\ Has(a, "calcPubSig")

\* Both values wrong, in an attempt that began with a key already stored.
C3_Witness ==
    \E a \in Attempts :
        /\ Ended(a) /\ PhaseTwoAnswered(a) /\ ProofWrong(a) /\ PubSigWrong(a)
        /\ lsAtStart[a] # NoKey

(***************************************************************************)
(* C4                                                                      *)
(***************************************************************************)
\* C4: an attempt whose phase-one reply carried no verification token has
\* ended Failed with a protocol error; only the token document was parsed,
\* no parameter was set, no proof computed and no fourth request sent.
C4_MissingTokenStops ==
    \A a \in Attempts :
        /\ Len(rcvd[a]) >= PhaseOnePos
        /\ rcvd[a][PhaseOnePos].resolved
        /\ IsNull(rcvd[a][PhaseOnePos].token)
        => /\ Ended(a)
           /\ FailedAs(a, "ProtocolError")
           /\ caught[a][1].msg = "Server did not supply verification token"
           /\ Count(a, "parse") = 1
           /\ \A e \in ProofEvents : ~Has(a, e)
           /\ scram[a] = NewScram(AuthPwd)
           /\ Len(sent[a]) = PhaseOnePos

\* The reply without the header had a challenge in its body.
C4_Witness ==
    \E a \in Attempts :
        /\ Ended(a) /\ Len(rcvd[a]) = PhaseOnePos
        /\ rcvd[a][PhaseOnePos].resolved
        /\ IsNull(rcvd[a][PhaseOnePos].token)
        /\ rcvd[a][PhaseOnePos].data.response.present

(***************************************************************************)
(* C5                                                                      *)
(***************************************************************************)
\* C5: an attempt whose phase-one reply reached the parse step with an
\* error element in its body has ended Failed with the rate-limit error made
\* from that element's waittime, and with no other error; setParams and
\* calcProof were not called and no fourth request was sent.
C5_RateLimitSurfaces ==
    \A a \in Attempts :
        PhaseOneParsed(a) /\ rcvd[a][PhaseOnePos].data.error.present =>
            /\ Ended(a)
            /\ FailedAs(a, "RateLimitError")
            /\ caught[a] = <<TooMany(rcvd[a][PhaseOnePos].data.error.waittime)>>
            /\ \A e \in ProofEvents : ~Has(a, e)
            /\ scram[a] = NewScram(AuthPwd)
            /\ Len(sent[a]) = PhaseOnePos

\* The error element said to wait 5 minutes, and the callback went on to
\* throw after it had rejected.
C5_Witness ==
    \E a \in Attempts :
        /\ PhaseOneParsed(a)
        /\ rcvd[a][PhaseOnePos].data.error = [present |-> TRUE, waittime |-> Str(<<"5">>)]
        /\ caught[a] # <<>> /\ caught[a][1].arg = <<"5">>
        /\ Has(a, "reject") /\ Has(a, "throw")

(***************************************************************************)
(* C6                                                                      *)
(***************************************************************************)
StoreEvents == {"setItem rsan", "setItem rsae"}

\* C6: once an attempt has failed (a callback threw or rejected), it sends
\* no request, sets no parameter, computes no proof and stores no item, and
\* its failure reaches the .catch handler once.
C6_FailFast ==
    \A a \in Attempts :
        /\ \A i, j \in 1..Len(trace[a]) :
              i < j /\ trace[a][i] \in FailEvents =>
                  trace[a][j] \notin {"send"} \cup ProofEvents \cup StoreEvents
        /\ Count(a, "catch") <= 1
        /\ Ended(a) /\ (\E e \in FailEvents : Has(a, e)) => Count(a, "catch") = 1

(***************************************************************************)
(* C7                                                                      *)
(***************************************************************************)
\* C7: the requests of an attempt are, in this order and each at most once,
\* the root GET, the token GET, the challenge POST and the authentication
\* POST, and a request is issued only when the replies to all the earlier
\* ones have been received.
C7_RequestsInOrderOnce ==
    \A a \in Attempts :
        /\ Len(sent[a]) <= Len(RequestOrder)
        /\ \A i \in 1..Len(sent[a]) :
              /\ sent[a][i].uri = RequestOrder[i]
              /\ sent[a][i].method = IF RequestOrder[i] \in {ROOT, TOKEN} THEN "get" ELSE "post"
        /\ Len(rcvd[a]) <= Len(sent[a])
        /\ Len(sent[a]) <= Len(rcvd[a]) + 1
        /\ Count(a, "send") = Len(sent[a])
        /\ Count(a, "recv") = Len(rcvd[a])
        /\ \A i, j \in 1..Len(trace[a]) :
              i < j /\ trace[a][i] = "send" /\ trace[a][j] = "send" =>
                  \E k \in (i + 1)..(j - 1) : trace[a][k] = "recv"

\* All four requests were issued and answered.
C7_Witness ==
    \E a \in Attempts :
        /\ Ended(a)
        /\ Len(sent[a]) = Len(RequestOrder)
        /\ Len(rcvd[a]) = Len(RequestOrder)

(***************************************************************************)
(* C8                                                                      *)
(***************************************************************************)
\* C8: an attempt that has run to its end is Verified or Failed and not
\* both, and it is Verified when the phase-two reply carried the values its
\* HwScramAuth object computes.
C8_EndsVerifiedOrFailed ==
    \A a \in Attempts :
        Ended(a) =>
            /\ Verified(a) \/ Failed(a)
            /\ ~(Verified(a) /\ Failed(a))
            /\ /\ PhaseTwoAnswered(a)
               /\ ~ProofWrong(a) /\ ~PubSigWrong(a)
               /\ ~IsNull(PhaseTwoFields(a).rsae)
               => Verified(a)

(***************************************************************************)
(* C9                                                                      *)
(***************************************************************************)
SuccessSignals ==
    {"log Logged in successfully", "show Logged in!",
     "log Server identity successfully verified."}

\* C9: an attempt announces success only after both comparisons have
\* passed, and does not fail after it has announced success.
C9_SuccessOnlyAfterVerification ==
    \A a \in Attempts :
        \A i \in 1..Len(trace[a]) :
            trace[a][i] \in SuccessSignals =>
                /\ \E j \in 1..(i - 1) : trace[a][j] = "calcServerProof"
                /\ \E j \in 1..(i - 1) : trace[a][j] = "calcPubSig"
                /\ PhaseTwoAnswered(a) /\ ~ProofWrong(a) /\ ~PubSigWrong(a)
                /\ \A j \in (i + 1)..Len(trace[a]) :
                      trace[a][j] \notin FailEvents \cup {"catch"}

(***************************************************************************)
(* C10                                                                     *)
(***************************************************************************)
\* A non-empty string of an even number of hexadecimal digits
ValidHex(x) ==
    /\ x.t = "string" /\ x.v # <<>> /\ Len(x.v) % 2 = 0
    /\ \A i \in 1..Len(x.v) : DigitVal(x.v[i], 16) >= 0

\* A string of decimal digits that denotes a number above zero
PositiveIntText(x) ==
    /\ x.t = "string" /\ x.v # <<>>
    /\ \A i \in 1..Len(x.v) : DigitVal(x.v[i], 10) >= 0
    /\ \E i \in 1..Len(x.v) : DigitVal(x.v[i], 10) > 0

PhaseOneFields(a) == rcvd[a][PhaseOnePos].data.response

\* The phase-one reply reached the parse step with a challenge in its body.
Challenged(a) ==
    /\ PhaseOneParsed(a)
    /\ rcvd[a][PhaseOnePos].data.wellFormed
    /\ PhaseOneFields(a).present
    /\ ~IsNull(PhaseOneFields(a).servernonce)
    /\ ~IsNull(PhaseOneFields(a).salt)
    /\ ~IsNull(PhaseOneFields(a).iterations)

\* C10: an attempt whose challenge carried a salt that is not valid hex, or
\* an iteration count that is not a positive integer, has ended Failed with
\* a CryptoError, has computed no proof and has not sent the phase-two
\* request.
C10_BadParametersRejected ==
    \A a \in Attempts :
        /\ Challenged(a)
        /\ ~ValidHex(PhaseOneFields(a).salt) \/ ~PositiveIntText(PhaseOneFields(a).iterations)
        => /\ Ended(a)
           /\ FailedAs(a, "CryptoError")
           /\ ~Has(a, "calcProof")
           /\ Len(sent[a]) = PhaseOnePos

(***************************************************************************)
(* C11: when the root request does not succeed the attempt ends Failed at  *)
(* the session step and the token endpoint is never requested; and the     *)
(* session counts as established exactly when the root response has a      *)
(* success status (the axios promise resolved): every such response is     *)
(* accepted, every other is rejected.                                      *)
(***************************************************************************)
RootAnswered(a) == Len(rcvd[a]) >= 1

SessionAccepted(a) == Len(sent[a]) >= 2 /\ sent[a][2] = GetRequest(TOKEN)

SessionRefused(a) ==
    /\ Ended(a)
    /\ Failed(a)
    /\ Len(sent[a]) = 1
    /\ Len(caught[a]) = 1
    /\ \/ Kind(caught[a][1]) = "SessionError"
       \/ caught[a][1] = AxiosErr

C11_SessionByStatus ==
    \A a \in Attempts :
        RootAnswered(a) =>
            IF rcvd[a][1].resolved THEN SessionAccepted(a) ELSE SessionRefused(a)

(***************************************************************************)
(* C12: in every attempt calcProof, calcServerProof and calcPubSig run     *)
(* only after one single setParams call, which set clientNonce,            *)
(* serverNonce, salt and iterations together; no proof is computed with    *)
(* one of the four unset; and the parameters the server proof and the      *)
(* public-key signature are computed from are those the client proof was   *)
(* computed from.                                                          *)
(***************************************************************************)
ParamsSet(sc) ==
    /\ ~IsNull(sc.clientNonce)
    /\ ~IsNull(sc.serverNonce)
    /\ ~IsNull(sc.salt)
    /\ ~IsNull(sc.iters)

Challenge(a) == rcvd[a][PhaseOnePos].data.response

\* The clientproof field of the phase-two request of attempt a
SentProof(a) == sent[a][PhaseTwoPos].fields[1][2]

Computes(a) == \E e \in ProofEvents \ {"setParams"} : Has(a, e)

C12_ProofsAfterOneSetParams ==
    \A a \in Attempts :
        Computes(a) =>
            /\ Count(a, "setParams") = 1
            /\ \A e \in ProofEvents \ {"setParams"} : Before(a, "setParams", e)
            /\ ParamsSet(scram[a])
            /\ scram[a].clientNonce = clientNonce[a]
            /\ scram[a].serverNonce = Challenge(a).servernonce
            /\ scram[a].salt = Challenge(a).salt
            /\ scram[a].iters = parseInt(Challenge(a).iterations, 10)
            /\ Len(sent[a]) = PhaseTwoPos
            /\ SentProof(a) = calcProof(scram[a])

\* All three proofs were computed in one attempt.
C12_Witness ==
    \E a \in Attempts :
        /\ Has(a, "calcProof")
        /\ Has(a, "calcServerProof")
        /\ Has(a, "calcPubSig")
        /\ ParamsSet(scram[a])

(***************************************************************************)
(* C13: once the phase-one header step has completed, the attempt's        *)
(* verification token is never null, through the phase-two request, the    *)
(* phase-two reply and the end of the attempt; a phase-one reply that does *)
(* not supply the token ends the attempt as Failed(ProtocolError) at that  *)
(* step.                                                                   *)
(***************************************************************************)
PhaseOneReceived(a) == Len(rcvd[a]) >= PhaseOnePos /\ rcvd[a][PhaseOnePos].resolved

PhaseTwoReceived(a) == Len(rcvd[a]) >= PhaseTwoPos /\ rcvd[a][PhaseTwoPos].resolved

StoppedAtPhaseOneHeader(a) ==
    /\ Ended(a)
    /\ FailedAs(a, "ProtocolError")
    /\ Len(sent[a]) = PhaseOnePos
    /\ Len(rcvd[a]) = PhaseOnePos
    /\ Count(a, "parse") = 1
    /\ ~Has(a, "setParams")

C13_TokenNeverNull ==
    \A a \in Attempts :
        /\ PhaseOneReceived(a) =>
              IF IsNull(rcvd[a][PhaseOnePos].token)
              THEN StoppedAtPhaseOneHeader(a)
              ELSE ~IsNull(veriToken[a])
        /\ Len(sent[a]) >= PhaseTwoPos =>
              /\ ~IsNull(veriToken[a])
              /\ ~IsNull(sent[a][PhaseTwoPos].token)

\* The phase-two reply carried no new token and the attempt still has one.
C13_Witness ==
    \E a \in Attempts :
        /\ PhaseTwoReceived(a)
        /\ IsNull(rcvd[a][PhaseTwoPos].tokenOne)
        /\ Ended(a)
        /\ ~IsNull(veriToken[a])

(***************************************************************************)
(* C15: after the phase-two reply is read the attempt's token is the       *)
(* reply's alternate verification-token header when the reply carries it,  *)
(* and otherwise, unchanged, the token of the phase-one reply; the step    *)
(* fails with ProtocolError only when the header is absent and there is no *)
(* prior token.                                                            *)
(***************************************************************************)
NoNewToken == "Server did not supply new verification token"

\* The header step on its own, for a prior token and a header that are each
\* present or absent.
HeaderStepFailsOnlyWithoutAnyToken ==
    \A prior \in {Undef, Str(<<"V", "1">>)}, one \in {Undef, Str(<<"V", "2">>)} :
        LET hdr == PhaseTwoHeaderStep(prior, Reply(TRUE, "OK", Undef, one, Malformed))
        IN  /\ hdr.out.state = "rejected" <=> IsNull(one) /\ IsNull(prior)
            /\ hdr.out.state = "rejected" => Kind(hdr.out.error) = "ProtocolError"
            /\ hdr.veriToken = IF IsNull(one) THEN prior ELSE one

C15_TokenRotation ==
    /\ HeaderStepFailsOnlyWithoutAnyToken
    /\ \A a \in Attempts :
          PhaseTwoReceived(a) =>
              /\ veriToken[a] = IF IsNull(rcvd[a][PhaseTwoPos].tokenOne)
                                THEN rcvd[a][PhaseOnePos].token
                                ELSE rcvd[a][PhaseTwoPos].tokenOne
              /\ \A i \in 1..Len(caught[a]) : caught[a][i].msg # NoNewToken

\* The reply carried a new token and it replaced the token of phase one.
C15_Witness ==
    \E a \in Attempts :
        /\ PhaseTwoReceived(a)
        /\ ~IsNull(rcvd[a][PhaseTwoPos].tokenOne)
        /\ veriToken[a] = rcvd[a][PhaseTwoPos].tokenOne
        /\ veriToken[a] # rcvd[a][PhaseOnePos].token

(***************************************************************************)
(* C14: login attempts that run concurrently share no mutable state but    *)
(* the stored device key, and whatever the order of their steps the stored *)
(* pair is consistent: rsan and rsae are those of one phase-two reply, of  *)
(* an attempt whose two checks passed, never rsan of one attempt with rsae *)
(* of another; it is the pair of the attempt that verified last.           *)
(* (Checked under SpecConc.)                                               *)
(***************************************************************************)
Locals(a) ==
    <<pc[a], clientNonce[a], serverNonce[a], veriToken[a], scram[a], sent[a], rcvd[a],
      chain[a], caught[a], retVal[a]>>

\* A step of attempt a leaves the locals of every other attempt alone.
OwnLocalsOnly ==
    \A a, b \in Attempts : a # b /\ trace'[a] # trace[a] => Locals(b)' = Locals(b)

BothChecksPassed(a) == PhaseTwoAnswered(a) /\ ~ProofWrong(a) /\ ~PubSigWrong(a)

Stored(a) == Has(a, "setItem rsan") \/ Has(a, "setItem rsae")

PairConsistent ==
    /\ localStorage = [rsan |-> lastWrite.rsan, rsae |-> lastWrite.rsae]
    /\ lastWrite # NoWrite => lastWrite.proofOK /\ lastWrite.sigOK
    /\ \A a \in Attempts :
          /\ Stored(a) => /\ Count(a, "setItem rsan") = 1
                          /\ Count(a, "setItem rsae") = 1
                          /\ BothChecksPassed(a)
          /\ Ended(a) /\ BothChecksPassed(a) /\ HasWindow => Stored(a)
          /\ lastWrite.attempt = a /\ Stored(a) =>
                /\ localStorage.rsan = PhaseTwoFields(a).rsan
                /\ localStorage.rsae = PhaseTwoFields(a).rsae

C14_ConcurrentAttempts == []PairConsistent /\ [][OwnLocalsOnly]_vars

\* Two attempts in flight together both stored a key, with different moduli
\* and exponents, and the one that was started first stored last.
C14_Witness ==
    /\ \A a \in Attempts : Ended(a) /\ Stored(a)
    /\ PhaseTwoFields(1).rsan # PhaseTwoFields(2).rsan
    /\ PhaseTwoFields(1).rsae # PhaseTwoFields(2).rsae
    /\ lastWrite.attempt = 1
    /\ localStorage.rsan = PhaseTwoFields(1).rsan

(***************************************************************************)
(* C16: the phase-two request of an attempt carries as its verification    *)
(* header the token of that attempt's phase-one reply, as finalnonce the   *)
(* servernonce of that reply, and as clientproof the proof computed from   *)
(* that reply's salt and iterations and the client nonce sent as           *)
(* firstnonce in the attempt's phase-one request; the client nonce is      *)
(* generated once per attempt.                                             *)
(***************************************************************************)
FirstNonce(a) == sent[a][PhaseOnePos].fields[2]

\* The HwScramAuth fields that the nonce cn and the challenge ch give.
ParamsOf(cn, ch) ==
    [pwd |-> AuthPwd, clientNonce |-> cn, iters |-> parseInt(ch.iterations, 10),
     salt |-> ch.salt, serverNonce |-> ch.servernonce,
     sigSecret |-> Str(cn.v \o <<",">> \o ch.servernonce.v \o <<",">> \o ch.servernonce.v)]

C16_PhaseTwoFromPhaseOne ==
    \A a \in Attempts :
        Len(sent[a]) >= PhaseTwoPos =>
            LET req == sent[a][PhaseTwoPos]
            IN  /\ req.uri = SCRAM_PHASE_TWO
                /\ req.token = rcvd[a][PhaseOnePos].token
                /\ Len(req.fields) = 2
                /\ req.fields[2] = <<"finalnonce", Challenge(a).servernonce>>
                /\ FirstNonce(a)[1] = "firstnonce"
                /\ req.fields[1] =
                      <<"clientproof", calcProof(ParamsOf(FirstNonce(a)[2], Challenge(a)))>>
                /\ Count(a, "generateNonce") = 1
                /\ FirstNonce(a)[2] = clientNonce[a]

\* A second attempt, with a nonce of its own, sent its phase-two request.
C16_Witness ==
    \E a \in Attempts :
        /\ logins = 2
        /\ Len(sent[a]) = PhaseTwoPos
        /\ FirstNonce(a)[2] = generateNonce(2)
        /\ SentProof(a) = calcProof(scram[a])

(***************************************************************************)
(* C17: the phase-one request carries as its verification header the token *)
(* string parsed from the token endpoint's reply with exactly its first 32 *)
(* characters removed, the rest unchanged, and the body fields username,   *)
(* firstnonce = the attempt's client nonce, mode = "1", in that order.     *)
(***************************************************************************)
ParsedToken(a) == rcvd[a][Pos(TOKEN)].data.response.token

C17_PhaseOneRequest ==
    \A a \in Attempts :
        Len(sent[a]) >= PhaseOnePos =>
            LET req == sent[a][PhaseOnePos]
                tok == ParsedToken(a).v
            IN  /\ req.uri = SCRAM_PHASE_ONE
                /\ req.token.t = "string"
                /\ Len(req.token.v) = IF Len(tok) > 32 THEN Len(tok) - 32 ELSE 0
                /\ \A i \in 1..Len(req.token.v) : req.token.v[i] = tok[i + 32]
                /\ req.fields = <<<<"username", AuthUser>>,
                                  <<"firstnonce", clientNonce[a]>>,
                                  <<"mode", Str(<<"1">>)>>>>

\* A token longer than 32 characters was received and the request sent.
C17_Witness ==
    \E a \in Attempts :
        /\ Len(sent[a]) >= PhaseOnePos
        /\ ParsedToken(a) = LongToken
        /\ sent[a][PhaseOnePos].token = Str(<<"T", "0">>)

(***************************************************************************)
(* C18, as the code has it: after any sequence of setParams calls the      *)
(* stored AuthMessage is formed from the clientNonce and the serverNonce   *)
(* the object holds now (it never lags behind or mixes the nonces of       *)
(* different calls); it is clientNonce, a comma, serverNonce, a comma and  *)
(* serverNonce again; and that same value is what calcProof and            *)
(* calcServerProof both sign with.  (Checked under SpecScram.)             *)
(***************************************************************************)
SetParamsCalled == \E i \in 1..Len(calls) : calls[i].fn = "setParams"

LastSetParams == calls[CHOOSE i \in 1..Len(calls) :
                         /\ calls[i].fn = "setParams"
                         /\ \A j \in (i + 1)..Len(calls) : calls[j].fn # "setParams"]

HoldsLastNonces ==
    /\ auth.clientNonce = LastSetParams.args[1]
    /\ auth.serverNonce = LastSetParams.args[2]

\* The AuthMessage the proofs of the call c were signed with
SignedWith(c) == IF c.fn = "calcProof" THEN c.value.v.b.b ELSE c.value.v.b

ProofsUseStored ==
    \A i \in 1..Len(calls) :
        calls[i].fn \in {"calcProof", "calcServerProof"} =>
            SignedWith(calls[i]) = calls[i].before.sigSecret

C18_AuthMessageCommaJoined ==
    /\ SetParamsCalled =>
          /\ HoldsLastNonces
          /\ auth.sigSecret = Str(auth.clientNonce.v \o <<",">> \o auth.serverNonce.v
                                  \o <<",">> \o auth.serverNonce.v)
    /\ ProofsUseStored

(***************************************************************************)
(* C18 as stated: the same, with the AuthMessage being the plain           *)
(* concatenation of clientNonce, serverNonce and serverNonce.              *)
(***************************************************************************)
C18_AuthMessagePlainConcat ==
    /\ SetParamsCalled =>
          /\ HoldsLastNonces
          /\ auth.sigSecret = Str(auth.clientNonce.v \o auth.serverNonce.v
                                  \o auth.serverNonce.v)
    /\ ProofsUseStored

\* Two setParams calls with different nonces, then both proofs.
C18_Witness ==
    /\ Len(calls) = 4
    /\ calls[1].fn = "setParams"
    /\ calls[2].fn = "setParams"
    /\ calls[1].args[1] # calls[2].args[1]
    /\ calls[1].args[2] # calls[2].args[2]
    /\ calls[3].fn = "calcProof"
    /\ calls[4].fn = "calcServerProof"
    /\ SignedWith(calls[3]) = SignedWith(calls[4])

(***************************************************************************)
(* C19: calcProof, calcServerProof and calcPubSig leave the object's       *)
(* password, nonces, salt, iterations and AuthMessage unchanged, and a     *)
(* call repeated, in any order with the others, on the same stored         *)
(* parameters returns the same value.  (Checked under SpecScram.)          *)
(***************************************************************************)
ProofCalls == {"calcProof", "calcServerProof", "calcPubSig"}

Bit(h, j) == (h \div (2 ^ j)) % 2

XorDone == xor # NoXor /\ xor.i = xor.n

C20_ProofIsXorOfAllWords ==
    XorDone =>
        /\ Len(xor.words) = 8
        /\ \A k \in 1..8 :
              /\ \A h \in 1..2, j \in 0..15 :
                    Bit(xor.words[k][h], j) =
                        IF Bit(xor.clientKey[k][h], j) = Bit(xor.signature[k][h], j)
                        THEN 0
                        ELSE 1
              /\ XorWord(xor.words[k], xor.signature[k]) = xor.clientKey[k]

\* The loop has run to its end on a signature whose last word is not zero.
C20_Witness ==
    /\ XorDone
    /\ xor.signature[8] # <<0, 0>>
    /\ xor.words[8] # xor.clientKey[8]
    /\ xor.words[1] # xor.clientKey[1]

====
